---- MODULE Spec2Model ----
(***************************************************************************)
(* A model of the MySQL MCP server of src/src/index.ts: the connection     *)
(* manager state of class MySQLMCPServer (pool, config, autoConnect,      *)
(* defaultConfig), the tool dispatcher and the eight tool handlers.        *)
(* Every handler is cut at its awaits: the code between two awaits is one  *)
(* atomic action.  The mysql2 calls (createPool, end, getConnection, ping, *)
(* execute) are a black box whose outcome (returns / throws) is chosen     *)
(* nondeterministically at each call.                                      *)
(***************************************************************************)
EXTENDS Integers, Sequences, FiniteSets, TLC

\* Bounds of the model.
MaxCalls == 3      \* tool invocations in one behaviour
MaxTasks == 2      \* invocation slots (tool calls in flight at once)
HistLen == 3       \* completed calls remembered in hist
AsyncCalls == 2    \* tool invocations in one behaviour of the interleaved specification

Slots == 1 .. MaxTasks

(***************************************************************************)
(* JavaScript values: a type tag, and the payload of that type.            *)
(***************************************************************************)
Undefined == [t |-> "undefined", s |-> "", n |-> 0, a |-> <<>>]
Str(x) == [t |-> "string", s |-> x, n |-> 0, a |-> <<>>]
Num(k) == [t |-> "number", s |-> "", n |-> k, a |-> <<>>]
Bool(b) == [t |-> "boolean", s |-> "", n |-> IF b THEN 1 ELSE 0, a |-> <<>>]
Obj == [t |-> "object", s |-> "", n |-> 0, a |-> <<>>]
Arr(xs) == [t |-> "array", s |-> "", n |-> 0, a |-> xs]

\* JavaScript truthiness of a value.
Truthy(v) ==
  CASE v.t = "undefined" -> FALSE
    [] v.t = "string" -> v.s # ""
    [] v.t = "number" -> v.n # 0
    [] v.t = "boolean" -> v.n = 1
    [] OTHER -> TRUE

\* A value inside a template literal ${v}.
Tmpl(v) ==
  CASE v.t = "undefined" -> "undefined"
    [] v.t = "string" -> v.s
    [] v.t = "number" -> ToString(v.n)
    [] v.t = "boolean" -> (IF v.n = 1 THEN "true" ELSE "false")
    [] OTHER -> "[object Object]"

\* a || b
OrElse(a, b) == IF Truthy(a) THEN a ELSE b

\* A nullable reference: <<>> is null, <<x>> is x.
Null == <<>>
Some(x) == <<x>>
IsNull(r) == r = <<>>
Val(r) == r[1]

(***************************************************************************)
(* ConfigSchema (zod): the argument bag is a record of JavaScript values,  *)
(* present telling whether the call carried an arguments object at all.  *)
(***************************************************************************)
NoArgs ==
  [present |-> FALSE, host |-> Undefined, port |-> Undefined,
   user |-> Undefined, password |-> Undefined, database |-> Undefined,
   ssl |-> Undefined, connectionLimit |-> Undefined,
   query |-> Undefined, params |-> Undefined, table |-> Undefined]

EmptyArgs == [NoArgs EXCEPT !.present = TRUE]

\* z.string() / z.number() / z.boolean(), with .default(d) or .optional()
FieldOK(v, type, required) ==
  IF v.t = "undefined" THEN ~required ELSE v.t = type

ConfigSchemaOKBroken(args) ==
  /\ args.present
  /\ FieldOK(args.host, "string", FALSE)
  /\ FieldOK(args.port, "number", FALSE)
  /\ FieldOK(args.user, "string", FALSE)
  /\ FieldOK(args.password, "string", FALSE)
  /\ FieldOK(args.database, "string", FALSE)
  /\ FieldOK(args.ssl, "boolean", FALSE)
  /\ FieldOK(args.connectionLimit, "number", FALSE)

\* ConfigSchema.parse(args) does not throw
ConfigSchemaOK(args) ==
  /\ args.present
  /\ FieldOK(args.host, "string", FALSE)
  /\ FieldOK(args.port, "number", FALSE)
  /\ FieldOK(args.user, "string", TRUE)
  /\ FieldOK(args.password, "string", TRUE)
  /\ FieldOK(args.database, "string", FALSE)
  /\ FieldOK(args.ssl, "boolean", FALSE)
  /\ FieldOK(args.connectionLimit, "number", FALSE)

Default(v, d) == IF v.t = "undefined" THEN d ELSE v

\* The value ConfigSchema.parse(args) returns: the seven known keys, with
\* the schema defaults filled in.
ConfigSchemaParse(args) ==
  [host |-> Default(args.host, Str("localhost")),
   port |-> Default(args.port, Num(3306)),
   user |-> args.user,
   password |-> args.password,
   database |-> args.database,
   ssl |-> Default(args.ssl, Bool(FALSE)),
   connectionLimit |-> Default(args.connectionLimit, Num(10))]

(***************************************************************************)
(* The environment of the process and loadDefaultConfig.                   *)
(***************************************************************************)
\* parseInt on the decimal strings the environments below use
ParseInt(s) ==
  CASE s = "3306" -> 3306
    [] s = "3307" -> 3307
    [] s = "10" -> 10
    [] s = "5" -> 5

NoEnv ==
  [MYSQL_HOST |-> Undefined, MYSQL_PORT |-> Undefined,
   MYSQL_USER |-> Undefined, MYSQL_PASSWORD |-> Undefined,
   MYSQL_DATABASE |-> Undefined, MYSQL_SSL |-> Undefined,
   MYSQL_CONNECTION_LIMIT |-> Undefined]

Envs ==
  { NoEnv,
    [NoEnv EXCEPT !.MYSQL_USER = Str("envuser")],
    [NoEnv EXCEPT !.MYSQL_PASSWORD = Str("envpw"), !.MYSQL_HOST = Str("envhost")],
    [NoEnv EXCEPT !.MYSQL_USER = Str("envuser"), !.MYSQL_PASSWORD = Str("envpw")],
    [NoEnv EXCEPT !.MYSQL_USER = Str("envuser"), !.MYSQL_PASSWORD = Str("envpw"),
                  !.MYSQL_HOST = Str("envhost"), !.MYSQL_PORT = Str("3307"),
                  !.MYSQL_DATABASE = Str("envdb"), !.MYSQL_SSL = Str("true"),
                  !.MYSQL_CONNECTION_LIMIT = Str("5")] }

\* the object loadDefaultConfig assigns to this.defaultConfig
EnvConfig(e) ==
  [host |-> OrElse(e.MYSQL_HOST, Str("localhost")),
   port |-> Num(ParseInt(OrElse(e.MYSQL_PORT, Str("3306")).s)),
   user |-> OrElse(e.MYSQL_USER, Str("")),
   password |-> OrElse(e.MYSQL_PASSWORD, Str("")),
   database |-> OrElse(e.MYSQL_DATABASE, Str("")),
   ssl |-> Bool(e.MYSQL_SSL = Str("true")),
   connectionLimit |-> Num(ParseInt(OrElse(e.MYSQL_CONNECTION_LIMIT, Str("10")).s))]

\* auto-connect enabled by either credential alone
EnvAutoConnectEither(dc) == Truthy(dc.user) \/ Truthy(dc.password)

\* the condition under which loadDefaultConfig enables auto-connect
EnvAutoConnect(dc) == Truthy(dc.user) /\ Truthy(dc.password)

(***************************************************************************)
(* The arguments the tools are called with.                                *)
(***************************************************************************)
FullArgs ==
  [EmptyArgs EXCEPT !.host = Str("db1"), !.port = Num(3307),
                    !.user = Str("root"), !.password = Str("pw"),
                    !.database = Str("shop"), !.ssl = Bool(TRUE),
                    !.connectionLimit = Num(5)]

MinArgs == [EmptyArgs EXCEPT !.user = Str("app"), !.password = Str("pw2")]

ConfigArgs ==
  { FullArgs,
    MinArgs,
    NoArgs,
    [FullArgs EXCEPT !.user = Undefined],
    [MinArgs EXCEPT !.password = Undefined],
    [MinArgs EXCEPT !.user = Num(7)],
    [MinArgs EXCEPT !.password = Bool(TRUE)],
    [MinArgs EXCEPT !.user = Str(""), !.password = Str("")] }

QueryArgs ==
  { NoArgs,
    [EmptyArgs EXCEPT !.query = Str("SELECT 1")],
    [EmptyArgs EXCEPT !.query = Str("SELECT * FROM t WHERE id = ?"),
                      !.params = Arr(<<"5">>)],
    [EmptyArgs EXCEPT !.query = Str("SELECT * FROM t WHERE id = ?"),
                      !.params = Arr(<<"5 OR 1=1">>)] }

ListTablesArgs == { NoArgs, EmptyArgs, [EmptyArgs EXCEPT !.database = Str("other")] }

DescribeArgs ==
  { NoArgs,
    [EmptyArgs EXCEPT !.table = Str("users")],
    [EmptyArgs EXCEPT !.table = Str("users"), !.database = Str("other")] }


(***************************************************************************)
(* The state of the program.                                               *)
(***************************************************************************)
VARIABLES
  pool,           \* this.pool: 0 is null, k > 0 is the k-th pool created
  config,         \* this.config (nullable)
  defaultConfig,  \* this.defaultConfig (nullable)
  autoConnect,    \* this.autoConnect
  pools,          \* every pool mysql.createPool has returned, in order
  task,           \* the invocations in flight: 0 is the start-up auto-connect
  calls,          \* tool invocations started so far
  hist            \* the last HistLen completed tool calls, oldest first

vars == <<pool, config, defaultConfig, autoConnect, pools, task, calls, hist>>
manager == <<pool, config, defaultConfig, autoConnect>>

\* the options object handed to mysql.createPool
PoolOptions(c) ==
  [host |-> c.host, port |-> c.port, user |-> c.user, password |-> c.password,
   database |-> c.database,
   ssl |-> IF Truthy(c.ssl) THEN Obj ELSE Undefined,
   connectionLimit |-> c.connectionLimit]

\* a pool as mysql.createPool returns it; live is the outcome of the
\* liveness check its creator ran, misuse tells whether a call was issued on
\* it after end(), by is the invocation that created it
NewPool(c, id) ==
  [opts |-> PoolOptions(c), ended |-> FALSE, live |-> "untested",
   by |-> id, misuse |-> FALSE]

\* pool.end() is called on pool p
PoolEnd(p) == [pools EXCEPT ![p].ended = TRUE, ![p].misuse = @ \/ pools[p].ended]
\* getConnection() or execute() is called on pool p
PoolUse(p) == [pools EXCEPT ![p].misuse = @ \/ pools[p].ended]
PoolLive(p, v) == [pools EXCEPT ![p].live = v]

Snapshot ==
  [pool |-> pool, config |-> config, defaultConfig |-> defaultConfig,
   autoConnect |-> autoConnect, npools |-> Len(pools),
   ended |-> {p \in 1 .. Len(pools) : pools[p].ended}]

IdleTask ==
  [id |-> 0, op |-> "", args |-> NoArgs, pc |-> "idle", kind |-> "none",
   text |-> <<>>, mine |-> 0, tgt |-> 0, threw |-> FALSE, auto |-> "none",
   stmt |-> "", sparams |-> <<>>, nexec |-> 0,
   pre |-> [pool |-> 0, config |-> Null, defaultConfig |-> Null,
            autoConnect |-> FALSE, npools |-> 0, ended |-> {}]]

\* messages of the errors the libraries throw
ZodMsg == "invalid arguments"
NullMsg == "Cannot read properties of null"
UndefMsg == "Cannot destructure property of undefined"
LibMsg == "driver error"
NotConnectedMsg ==
  "Not connected to MySQL. Please connect first using mysql_connect or mysql_setup_persistent."

Running(t) == task[t].pc \notin {"idle", "done"}

\* a new invocation of tool op in slot t
NewTask(op, args) ==
  [IdleTask EXCEPT !.id = calls + 1, !.op = op, !.args = args, !.pre = Snapshot]

Push(h, e) == IF Len(h) < HistLen THEN Append(h, e) ELSE Append(Tail(h), e)

\* the invocation goes on to its next await
Continue(t, tk) ==
  /\ task' = [task EXCEPT ![t] = tk]
  /\ UNCHANGED hist

\* the invocation ends: a result (kind "ok") or an McpError of that kind;
\* text is the list of the lines of the result text or of the error message
Return(t, tk, kind, text) ==
  /\ task' = [task EXCEPT ![t] = [tk EXCEPT !.pc = "done", !.kind = kind, !.text = text]]
  /\ hist' = Push(hist, [op |-> tk.op, kind |-> kind])

\* the handler threw something that is not an McpError: the catch of the
\* dispatcher wraps it
ReturnWrapped(t, tk, msg) ==
  Return(t, tk, "InternalError", <<"Error executing tool " \o tk.op \o ": " \o msg>>)

\* the catch of handleConnect swallowing the error
ConnectFailedSwallowed(t, tk, msg) ==
  Return(t, tk, "ok", <<"Successfully connected to MySQL server">>)

ConnectFailed(t, tk, msg) ==
  Return(t, tk, "InvalidParams", <<"Failed to connect to MySQL: " \o msg>>)

(***************************************************************************)
(* connectWithDefaultConfig, lines 65-96.  It runs inside the invocation   *)
(* that called it; auto records how far it got.                          *)
(***************************************************************************)
\* connectWithDefaultConfig is over: the start-up call has no caller, every
\* other call resumes its caller
AutoOver(tk, outcome) ==
  [tk EXCEPT !.auto = outcome, !.pc = IF tk.op = "startup" THEN "done" ELSE "d_ret"]

\* lines 76-88: createPool from this.config, then getConnection is called
AutoCreatePool(t, tk, cfg) ==
  IF IsNull(cfg)
  THEN /\ Continue(t, AutoOver(tk, "failed"))
       /\ UNCHANGED <<pool, pools>>
  ELSE \E ok \in BOOLEAN :
         IF ok
         THEN /\ pools' = Append(pools, NewPool(Val(cfg), tk.id))
              /\ pool' = Len(pools) + 1
              /\ Continue(t, [tk EXCEPT !.pc = "d_getconn", !.auto = "running",
                                        !.mine = Len(pools) + 1, !.tgt = Len(pools) + 1])
         ELSE /\ Continue(t, AutoOver([tk EXCEPT !.threw = TRUE], "failed"))
              /\ UNCHANGED <<pool, pools>>

\* lines 66-74: up to the first await; dc is this.defaultConfig at the call
ConnectWithDefaultConfig(t, tk, dc) ==
  IF IsNull(dc)
  THEN /\ Continue(t, AutoOver(tk, "skipped"))
       /\ UNCHANGED <<pool, config, pools>>
  ELSE /\ config' = dc
       /\ IF pool # 0
          THEN /\ pools' = PoolEnd(pool)
               /\ pool' = pool
               /\ Continue(t, [tk EXCEPT !.pc = "d_end", !.auto = "running", !.tgt = pool])
          ELSE AutoCreatePool(t, tk, dc)

\* line 73 resumes
AutoAfterEnd(t) ==
  /\ task[t].pc = "d_end"
  /\ UNCHANGED <<config, defaultConfig, autoConnect, calls>>
  /\ \E ok \in BOOLEAN :
       IF ok
       THEN AutoCreatePool(t, task[t], config)
       ELSE /\ Continue(t, AutoOver([task[t] EXCEPT !.threw = TRUE], "failed"))
            /\ UNCHANGED <<pool, pools>>

\* line 88 resumes
AutoAfterGetConnection(t) ==
  /\ task[t].pc = "d_getconn"
  /\ UNCHANGED <<pool, config, defaultConfig, autoConnect, calls>>
  /\ \E ok \in BOOLEAN :
       IF ok
       THEN /\ Continue(t, [task[t] EXCEPT !.pc = "d_ping"])
            /\ UNCHANGED pools
       ELSE /\ Continue(t, AutoOver([task[t] EXCEPT !.threw = TRUE], "failed"))
            /\ pools' = PoolLive(task[t].mine, "failed")

\* line 89 resumes; line 92 reads this.config, a TypeError there is caught
AutoAfterPing(t) ==
  /\ task[t].pc = "d_ping"
  /\ UNCHANGED <<pool, config, defaultConfig, autoConnect, calls>>
  /\ \E ok \in BOOLEAN :
       IF ok
       THEN /\ Continue(t, AutoOver(task[t], IF IsNull(config) THEN "failed" ELSE "ok"))
            /\ pools' = PoolLive(task[t].mine, "ok")
       ELSE /\ Continue(t, AutoOver([task[t] EXCEPT !.threw = TRUE], "failed"))
            /\ pools' = PoolLive(task[t].mine, "failed")


(***************************************************************************)
(* handleConnect, lines 241-280.                                           *)
(***************************************************************************)
\* a connect that builds the pool from its own parsed arguments, whatever
\* has become of this.config
ConnectCreatePoolOwnConfig(t, tk, cfg) ==
  \E ok \in BOOLEAN :
    IF ok
    THEN /\ pools' = Append(pools, NewPool(ConfigSchemaParse(tk.args), tk.id))
         /\ pool' = Len(pools) + 1
         /\ Continue(t, [tk EXCEPT !.pc = "c_getconn",
                                   !.mine = Len(pools) + 1, !.tgt = Len(pools) + 1])
    ELSE /\ ConnectFailed(t, [tk EXCEPT !.threw = TRUE], LibMsg)
         /\ UNCHANGED <<pool, pools>>

\* lines 250-262: createPool from this.config, then getConnection is called
ConnectCreatePool(t, tk, cfg) ==
  IF IsNull(cfg)
  THEN /\ ConnectFailed(t, tk, NullMsg)
       /\ UNCHANGED <<pool, pools>>
  ELSE \E ok \in BOOLEAN :
         IF ok
         THEN /\ pools' = Append(pools, NewPool(Val(cfg), tk.id))
              /\ pool' = Len(pools) + 1
              /\ Continue(t, [tk EXCEPT !.pc = "c_getconn",
                                        !.mine = Len(pools) + 1, !.tgt = Len(pools) + 1])
         ELSE /\ ConnectFailed(t, [tk EXCEPT !.threw = TRUE], LibMsg)
              /\ UNCHANGED <<pool, pools>>

\* a connect that keeps its configuration as the default one
HandleConnectRemembers(t, args) ==
  LET tk == NewTask("mysql_connect", args) IN
  /\ calls' = calls + 1
  /\ UNCHANGED autoConnect
  /\ IF ~ConfigSchemaOK(args)
     THEN /\ ConnectFailed(t, tk, ZodMsg)
          /\ UNCHANGED <<pool, config, pools, defaultConfig>>
     ELSE /\ config' = Some(ConfigSchemaParse(args))
          /\ defaultConfig' = Some(ConfigSchemaParse(args))
          /\ IF pool # 0
             THEN /\ pools' = PoolEnd(pool)
                  /\ pool' = pool
                  /\ Continue(t, [tk EXCEPT !.pc = "c_end", !.tgt = pool])
             ELSE ConnectCreatePool(t, tk, Some(ConfigSchemaParse(args)))

\* a connect that replaces the pool without closing the one in use
HandleConnectNoEnd(t, args) ==
  LET tk == NewTask("mysql_connect", args) IN
  /\ calls' = calls + 1
  /\ UNCHANGED <<defaultConfig, autoConnect>>
  /\ IF ~ConfigSchemaOK(args)
     THEN /\ ConnectFailed(t, tk, ZodMsg)
          /\ UNCHANGED <<pool, config, pools>>
     ELSE /\ config' = Some(ConfigSchemaParse(args))
          /\ ConnectCreatePool(t, tk, Some(ConfigSchemaParse(args)))

\* lines 242-248: up to the first await
HandleConnect(t, args) ==
  LET tk == NewTask("mysql_connect", args) IN
  /\ calls' = calls + 1
  /\ UNCHANGED <<defaultConfig, autoConnect>>
  /\ IF ~ConfigSchemaOK(args)
     THEN /\ ConnectFailed(t, tk, ZodMsg)
          /\ UNCHANGED <<pool, config, pools>>
     ELSE /\ config' = Some(ConfigSchemaParse(args))
          /\ IF pool # 0
             THEN /\ pools' = PoolEnd(pool)
                  /\ pool' = pool
                  /\ Continue(t, [tk EXCEPT !.pc = "c_end", !.tgt = pool])
             ELSE ConnectCreatePool(t, tk, Some(ConfigSchemaParse(args)))

\* line 247 resumes
ConnectAfterEnd(t) ==
  /\ task[t].pc = "c_end"
  /\ UNCHANGED <<config, defaultConfig, autoConnect, calls>>
  /\ \E ok \in BOOLEAN :
       IF ok
       THEN ConnectCreatePool(t, task[t], config)
       ELSE /\ ConnectFailed(t, [task[t] EXCEPT !.threw = TRUE], LibMsg)
            /\ UNCHANGED <<pool, pools>>

\* line 262 resumes
ConnectAfterGetConnection(t) ==
  /\ task[t].pc = "c_getconn"
  /\ UNCHANGED <<pool, config, defaultConfig, autoConnect, calls>>
  /\ \E ok \in BOOLEAN :
       IF ok
       THEN /\ Continue(t, [task[t] EXCEPT !.pc = "c_ping"])
            /\ UNCHANGED pools
       ELSE /\ ConnectFailed(t, [task[t] EXCEPT !.threw = TRUE], LibMsg)
            /\ pools' = PoolLive(task[t].mine, "failed")

\* the text of line 270
ConnectText(c) ==
  "Successfully connected to MySQL server at " \o Tmpl(c.host) \o ":" \o Tmpl(c.port)
    \o (IF Truthy(c.database) THEN " (database: " \o Tmpl(c.database) \o ")" ELSE "")

\* line 263 resumes; line 270 reads this.config
ConnectAfterPing(t) ==
  /\ task[t].pc = "c_ping"
  /\ UNCHANGED <<pool, config, defaultConfig, autoConnect, calls>>
  /\ \E ok \in BOOLEAN :
       IF ok
       THEN /\ pools' = PoolLive(task[t].mine, "ok")
            /\ IF IsNull(config)
               THEN ConnectFailed(t, task[t], NullMsg)
               ELSE Return(t, task[t], "ok", <<ConnectText(Val(config))>>)
       ELSE /\ ConnectFailed(t, [task[t] EXCEPT !.threw = TRUE], LibMsg)
            /\ pools' = PoolLive(task[t].mine, "failed")

(***************************************************************************)
(* handleQuery, handleListDatabases, handleListTables, handleDescribeTable *)
(* lines 282-426: the four share their shape.                              *)
(***************************************************************************)
ExecTools ==
  {"mysql_query", "mysql_list_databases", "mysql_list_tables", "mysql_describe_table"}

\* the identifier quote of MySQL, the grave accent U+0060 (written out here,
\* as the lexer of TLA+ pairs a grave accent with the next prime)
BQ == "[U+0060]"

\* the database argument alone, without the configured database
DbNameArgumentOnly(args, cfg) == args.database

\* database || this.config?.database
DbName(args, cfg) ==
  OrElse(args.database, IF IsNull(cfg) THEN Undefined ELSE Val(cfg).database)

\* a query whose parameter values are written into the statement text
StatementInlined(op, args, cfg) ==
  CASE op = "mysql_query" ->
         (IF args.params.t = "array" /\ Len(args.params.a) > 0
          THEN Tmpl(args.query) \o " /* " \o args.params.a[1] \o " */"
          ELSE Tmpl(args.query))
    [] op = "mysql_list_databases" -> "SHOW DATABASES"
    [] op = "mysql_list_tables" ->
         (IF Truthy(DbName(args, cfg))
          THEN "SHOW TABLES FROM " \o BQ \o Tmpl(DbName(args, cfg)) \o BQ
          ELSE "SHOW TABLES")
    [] op = "mysql_describe_table" ->
         (IF Truthy(DbName(args, cfg))
          THEN "DESCRIBE " \o BQ \o Tmpl(DbName(args, cfg)) \o BQ \o "." \o BQ \o Tmpl(args.table) \o BQ
          ELSE "DESCRIBE " \o BQ \o Tmpl(args.table) \o BQ)

\* the statement text handed to pool.execute
Statement(op, args, cfg) ==
  CASE op = "mysql_query" -> Tmpl(args.query)
    [] op = "mysql_list_databases" -> "SHOW DATABASES"
    [] op = "mysql_list_tables" ->
         (IF Truthy(DbName(args, cfg))
          THEN "SHOW TABLES FROM " \o BQ \o Tmpl(DbName(args, cfg)) \o BQ
          ELSE "SHOW TABLES")
    [] op = "mysql_describe_table" ->
         (IF Truthy(DbName(args, cfg))
          THEN "DESCRIBE " \o BQ \o Tmpl(DbName(args, cfg)) \o BQ \o "." \o BQ \o Tmpl(args.table) \o BQ
          ELSE "DESCRIBE " \o BQ \o Tmpl(args.table) \o BQ)

\* the params handed to pool.execute: (params = []) in handleQuery, none in
\* the other three
Params(op, args) ==
  IF op = "mysql_query" /\ args.params.t = "array" THEN args.params.a ELSE <<>>

\* every failed execute reported the way handleQuery reports its own
ExecFailureAllInvalidParams(op) ==
  CASE op = "mysql_query" -> <<"InvalidParams", "Query execution failed: ">>
    [] op = "mysql_list_databases" -> <<"InvalidParams", "Failed to list databases: ">>
    [] op = "mysql_list_tables" -> <<"InvalidParams", "Failed to list tables: ">>
    [] op = "mysql_describe_table" -> <<"InvalidParams", "Failed to describe table: ">>

\* the error a failed execute is reported as
ExecFailure(op) ==
  CASE op = "mysql_query" -> <<"InvalidParams", "Query execution failed: ">>
    [] op = "mysql_list_databases" -> <<"InternalError", "Failed to list databases: ">>
    [] op = "mysql_list_tables" -> <<"InternalError", "Failed to list tables: ">>
    [] op = "mysql_describe_table" -> <<"InternalError", "Failed to describe table: ">>

\* the guard testing this.config in place of this.defaultConfig
NeedsAutoConnectWrongField == pool = 0 /\ ~IsNull(config)

\* the guard of lines 284, 318, 350, 390
NeedsAutoConnect == pool = 0 /\ ~IsNull(defaultConfig)

\* a handler without the not-connected check after its auto-connect
ExecBodyUnchecked(t, tk) ==
  IF tk.op # "mysql_list_databases" /\ ~tk.args.present
  THEN /\ ReturnWrapped(t, tk, UndefMsg)
       /\ UNCHANGED pools
  ELSE /\ pools' = IF pool = 0 THEN pools ELSE PoolUse(pool)
       /\ Continue(t, [tk EXCEPT !.pc = "q_exec", !.tgt = pool,
                                 !.stmt = Statement(tk.op, tk.args, config),
                                 !.sparams = Params(tk.op, tk.args),
                                 !.nexec = @ + 1])

\* from the not-connected check to the await of execute (lines 288-298 and
\* their likes); destructuring an absent arguments object is a TypeError
\* outside the try of the handler
ExecBody(t, tk) ==
  IF pool = 0
  THEN /\ Return(t, tk, "InvalidRequest", <<NotConnectedMsg>>)
       /\ UNCHANGED pools
  ELSE IF tk.op # "mysql_list_databases" /\ ~tk.args.present
  THEN /\ ReturnWrapped(t, tk, UndefMsg)
       /\ UNCHANGED pools
  ELSE /\ pools' = PoolUse(pool)
       /\ Continue(t, [tk EXCEPT !.pc = "q_exec", !.tgt = pool,
                                 !.stmt = Statement(tk.op, tk.args, config),
                                 !.sparams = Params(tk.op, tk.args),
                                 !.nexec = @ + 1])

\* the handler up to its first await
HandleExec(t, op, args) ==
  LET tk == NewTask(op, args) IN
  /\ calls' = calls + 1
  /\ UNCHANGED <<defaultConfig, autoConnect>>
  /\ IF NeedsAutoConnect
     THEN ConnectWithDefaultConfig(t, tk, defaultConfig)
     ELSE /\ ExecBody(t, tk)
          /\ UNCHANGED <<pool, config>>

HandleQuery(t, args) == HandleExec(t, "mysql_query", args)
HandleListDatabases(t) == HandleExec(t, "mysql_list_databases", NoArgs)
HandleListTables(t, args) == HandleExec(t, "mysql_list_tables", args)
HandleDescribeTable(t, args) == HandleExec(t, "mysql_describe_table", args)

\* the await of connectWithDefaultConfig (lines 285, 319, 351, 391) resumes
ExecAfterAutoConnect(t) ==
  /\ task[t].pc = "d_ret"
  /\ task[t].op \in ExecTools
  /\ UNCHANGED <<pool, config, defaultConfig, autoConnect, calls>>
  /\ ExecBody(t, task[t])

\* a failed execute tried once more before it is reported
ExecAfterExecuteRetries(t) ==
  /\ task[t].pc = "q_exec"
  /\ UNCHANGED <<pool, config, defaultConfig, autoConnect, pools, calls>>
  /\ \E ok \in BOOLEAN :
       IF ok
       THEN Return(t, task[t], "ok", <<"rows">>)
       ELSE IF task[t].nexec < 2
       THEN Continue(t, [task[t] EXCEPT !.nexec = @ + 1])
       ELSE Return(t, [task[t] EXCEPT !.threw = TRUE],
                   ExecFailure(task[t].op)[1], <<ExecFailure(task[t].op)[2] \o LibMsg>>)

\* the await of execute resumes
ExecAfterExecute(t) ==
  /\ task[t].pc = "q_exec"
  /\ UNCHANGED <<pool, config, defaultConfig, autoConnect, pools, calls>>
  /\ \E ok \in BOOLEAN :
       IF ok
       THEN Return(t, task[t], "ok", <<"rows">>)
       ELSE Return(t, [task[t] EXCEPT !.threw = TRUE],
                   ExecFailure(task[t].op)[1], <<ExecFailure(task[t].op)[2] \o LibMsg>>)


(***************************************************************************)
(* handleDisconnect, lines 428-443.                                        *)
(***************************************************************************)
DisconnectText == "Successfully disconnected from MySQL server"

HandleDisconnect(t) ==
  LET tk == NewTask("mysql_disconnect", NoArgs) IN
  /\ calls' = calls + 1
  /\ UNCHANGED <<pool, config, defaultConfig, autoConnect>>
  /\ IF pool # 0
     THEN /\ pools' = PoolEnd(pool)
          /\ Continue(t, [tk EXCEPT !.pc = "x_end", !.tgt = pool])
     ELSE /\ Return(t, tk, "ok", <<DisconnectText>>)
          /\ UNCHANGED pools

\* a disconnect that drops the pool and keeps the current configuration
DisconnectAfterEndKeepsConfig(t) ==
  /\ task[t].pc = "x_end"
  /\ UNCHANGED <<defaultConfig, autoConnect, pools, calls, config>>
  /\ \E ok \in BOOLEAN :
       IF ok
       THEN /\ pool' = 0
            /\ Return(t, task[t], "ok", <<DisconnectText>>)
       ELSE /\ ReturnWrapped(t, [task[t] EXCEPT !.threw = TRUE], LibMsg)
            /\ UNCHANGED pool

\* line 430 resumes; a throwing end() leaves the handler, which has no try
DisconnectAfterEnd(t) ==
  /\ task[t].pc = "x_end"
  /\ UNCHANGED <<defaultConfig, autoConnect, pools, calls>>
  /\ \E ok \in BOOLEAN :
       IF ok
       THEN /\ pool' = 0
            /\ config' = Null
            /\ Return(t, task[t], "ok", <<DisconnectText>>)
       ELSE /\ ReturnWrapped(t, [task[t] EXCEPT !.threw = TRUE], LibMsg)
            /\ UNCHANGED <<pool, config>>

(***************************************************************************)
(* handleSetupPersistent, lines 445-466.                                   *)
(***************************************************************************)
\* the text of line 456
SetupText(c) ==
  "Persistent connection setup successful! Server will auto-connect to "
    \o Tmpl(c.host) \o ":" \o Tmpl(c.port) \o " (database: " \o Tmpl(c.database)
    \o ") for all future requests."

HandleSetupPersistent(t, args) ==
  LET tk == NewTask("mysql_setup_persistent", args) IN
  /\ calls' = calls + 1
  /\ IF ~ConfigSchemaOK(args)
     THEN /\ Return(t, tk, "InvalidParams",
                    <<"Failed to setup persistent connection: " \o ZodMsg>>)
          /\ UNCHANGED <<pool, config, defaultConfig, autoConnect, pools>>
     ELSE /\ defaultConfig' = Some(ConfigSchemaParse(args))
          /\ autoConnect' = TRUE
          /\ ConnectWithDefaultConfig(t, tk, Some(ConfigSchemaParse(args)))

\* the await of line 450 resumes; line 456 reads this.defaultConfig
SetupAfterAutoConnect(t) ==
  /\ task[t].pc = "d_ret"
  /\ task[t].op = "mysql_setup_persistent"
  /\ UNCHANGED <<pool, config, defaultConfig, autoConnect, pools, calls>>
  /\ IF IsNull(defaultConfig)
     THEN Return(t, task[t], "InvalidParams",
                 <<"Failed to setup persistent connection: " \o NullMsg>>)
     ELSE Return(t, task[t], "ok", <<SetupText(Val(defaultConfig))>>)

(***************************************************************************)
(* handleStatus, lines 468-501.                                            *)
(***************************************************************************)
\* the status text taken from the database where the user belongs
StatusLinesWrongUser(isConnected, cfg, ac) ==
  << "Connection Status: " \o (IF isConnected THEN "Connected" ELSE "Disconnected"),
     "Auto-Connect: " \o (IF ac THEN "Enabled" ELSE "Disabled") >>
  \o (IF IsNull(cfg) THEN <<>>
      ELSE << "Host: " \o Tmpl(Val(cfg).host) \o ":" \o Tmpl(Val(cfg).port),
              "Database: " \o Tmpl(Val(cfg).database),
              "User: " \o Tmpl(Val(cfg).database) >>)

\* lines 473-480: the lines of statusText before the health check
StatusLines(isConnected, cfg, ac) ==
  << "Connection Status: " \o (IF isConnected THEN "Connected" ELSE "Disconnected"),
     "Auto-Connect: " \o (IF ac THEN "Enabled" ELSE "Disabled") >>
  \o (IF IsNull(cfg) THEN <<>>
      ELSE << "Host: " \o Tmpl(Val(cfg).host) \o ":" \o Tmpl(Val(cfg).port),
              "Database: " \o Tmpl(Val(cfg).database),
              "User: " \o Tmpl(Val(cfg).user) >>)

Healthy == "Connection Health: Healthy"
Unhealthy == "Connection Health: Unhealthy (" \o LibMsg \o ")"

HandleStatus(t) ==
  LET tk == [NewTask("mysql_status", NoArgs) EXCEPT
               !.text = StatusLines(pool # 0, config, autoConnect)] IN
  /\ calls' = calls + 1
  /\ UNCHANGED <<pool, config, defaultConfig, autoConnect>>
  /\ IF pool # 0
     THEN /\ pools' = PoolUse(pool)
          /\ Continue(t, [tk EXCEPT !.pc = "s_getconn", !.tgt = pool])
     ELSE /\ Return(t, tk, "ok", tk.text)
          /\ UNCHANGED pools

\* a status whose health check lets the exception out of the handler
StatusAfterGetConnectionRaises(t) ==
  /\ task[t].pc = "s_getconn"
  /\ UNCHANGED <<pool, config, defaultConfig, autoConnect, pools, calls>>
  /\ \E ok \in BOOLEAN :
       IF ok
       THEN Continue(t, [task[t] EXCEPT !.pc = "s_ping"])
       ELSE ReturnWrapped(t, [task[t] EXCEPT !.threw = TRUE], LibMsg)

\* line 484 resumes
StatusAfterGetConnection(t) ==
  /\ task[t].pc = "s_getconn"
  /\ UNCHANGED <<pool, config, defaultConfig, autoConnect, pools, calls>>
  /\ \E ok \in BOOLEAN :
       IF ok
       THEN Continue(t, [task[t] EXCEPT !.pc = "s_ping"])
       ELSE Return(t, [task[t] EXCEPT !.threw = TRUE], "ok",
                   Append(task[t].text, Unhealthy))

\* a status that drops the pool it found unhealthy
StatusAfterPingDrops(t) ==
  /\ task[t].pc = "s_ping"
  /\ UNCHANGED <<defaultConfig, autoConnect, pools, calls>>
  /\ \E ok \in BOOLEAN :
       IF ok
       THEN /\ Return(t, task[t], "ok", Append(task[t].text, Healthy))
            /\ UNCHANGED <<pool, config>>
       ELSE /\ Return(t, [task[t] EXCEPT !.threw = TRUE], "ok",
                      Append(task[t].text, Unhealthy))
            /\ pool' = 0
            /\ config' = Null

\* line 485 resumes
StatusAfterPing(t) ==
  /\ task[t].pc = "s_ping"
  /\ UNCHANGED <<pool, config, defaultConfig, autoConnect, pools, calls>>
  /\ \E ok \in BOOLEAN :
       IF ok
       THEN Return(t, task[t], "ok", Append(task[t].text, Healthy))
       ELSE Return(t, [task[t] EXCEPT !.threw = TRUE], "ok",
                   Append(task[t].text, Unhealthy))

(***************************************************************************)
(* The ListToolsRequestSchema handler, lines 99-200: the names of the      *)
(* tools it advertises, in the order of the listing.                       *)
(***************************************************************************)
ListedTools ==
  << "mysql_connect", "mysql_query", "mysql_list_databases", "mysql_list_tables",
     "mysql_describe_table", "mysql_disconnect", "mysql_setup_persistent",
     "mysql_status" >>

ListedNames == {ListedTools[i] : i \in 1 .. Len(ListedTools)}

\* a tools/list request: answered from the listing, no field is read or written
ListTools(t) ==
  /\ calls' = calls + 1
  /\ UNCHANGED <<pool, config, defaultConfig, autoConnect, pools>>
  /\ Return(t, NewTask("tools/list", NoArgs), "ok", ListedTools)

(***************************************************************************)
(* The CallToolRequestSchema handler, lines 202-238.                       *)
(***************************************************************************)
\* a switch that lost the case of mysql_status
ToolNamesNoStatus ==
  {"mysql_connect", "mysql_query", "mysql_list_databases", "mysql_list_tables",
   "mysql_describe_table", "mysql_disconnect", "mysql_setup_persistent"}

\* the case labels of the switch, lines 206-222
ToolNames ==
  {"mysql_connect", "mysql_query", "mysql_list_databases", "mysql_list_tables",
   "mysql_describe_table", "mysql_disconnect", "mysql_setup_persistent",
   "mysql_status"}

OtherNames == {"invalid_tool", "mysql_ping"}

\* the names callers send: the advertised ones and the others
RequestedNames == ListedNames \cup OtherNames

\* the switch has a case for the name
Routed(name) == name \in ToolNames

\* a default branch that throws a plain Error, which the catch wraps
UnknownToolPlainError(t, name) ==
  /\ name \notin ToolNames
  /\ calls' = calls + 1
  /\ UNCHANGED <<pool, config, defaultConfig, autoConnect, pools>>
  /\ ReturnWrapped(t, NewTask(name, NoArgs), "Unknown tool: " \o name)

\* the default branch of the switch
UnknownTool(t, name) ==
  /\ name \notin ToolNames
  /\ calls' = calls + 1
  /\ UNCHANGED <<pool, config, defaultConfig, autoConnect, pools>>
  /\ Return(t, NewTask(name, NoArgs), "MethodNotFound", <<"Unknown tool: " \o name>>)

(***************************************************************************)
(* The state after construction: the constructor has run                   *)
(* loadDefaultConfig (lines 46-63), and with it connectWithDefaultConfig   *)
(* up to its first await when the environment names a user and a password. *)
(***************************************************************************)
StartupTask == [IdleTask EXCEPT !.op = "startup"]

LoadDefaultConfig(e) ==
  LET dc == EnvConfig(e) IN
  /\ defaultConfig = Some(dc)
  /\ autoConnect = EnvAutoConnect(dc)
  /\ IF EnvAutoConnect(dc)
     THEN /\ config = Some(dc)
          /\ \E ok \in BOOLEAN :
               IF ok
               THEN /\ pools = <<NewPool(dc, 0)>>
                    /\ pool = 1
                    /\ task = [t \in 0 .. MaxTasks |->
                                 IF t = 0
                                 THEN [StartupTask EXCEPT !.pc = "d_getconn",
                                         !.auto = "running", !.mine = 1, !.tgt = 1]
                                 ELSE IdleTask]
               ELSE /\ pools = <<>>
                    /\ pool = 0
                    /\ task = [t \in 0 .. MaxTasks |->
                                 IF t = 0
                                 THEN [StartupTask EXCEPT !.pc = "done",
                                         !.auto = "failed", !.threw = TRUE]
                                 ELSE IdleTask]
     ELSE /\ config = Null
          /\ pools = <<>>
          /\ pool = 0
          /\ task = [t \in 0 .. MaxTasks |-> IF t = 0 THEN StartupTask ELSE IdleTask]

Init ==
  /\ \E e \in Envs : LoadDefaultConfig(e)
  /\ calls = 0
  /\ hist = <<>>

(***************************************************************************)
(* The protocol layer hands the server one tool call at a time: a call     *)
(* starts when no other is in flight.  The start-up auto-connect is not    *)
(* awaited by anyone and goes on next to the calls.                        *)
(***************************************************************************)
Start(t) ==
  /\ t = 1
  /\ calls < MaxCalls
  /\ \A u \in Slots : ~Running(u)

CallListTools(t) == Start(t) /\ ListTools(t)
CallConnect(t) ==
  Start(t) /\ Routed("mysql_connect") /\ \E args \in ConfigArgs : HandleConnect(t, args)
CallQuery(t) ==
  Start(t) /\ Routed("mysql_query") /\ \E args \in QueryArgs : HandleQuery(t, args)
CallListDatabases(t) ==
  Start(t) /\ Routed("mysql_list_databases") /\ HandleListDatabases(t)
CallListTables(t) ==
  Start(t) /\ Routed("mysql_list_tables") /\ \E args \in ListTablesArgs : HandleListTables(t, args)
CallDescribeTable(t) ==
  Start(t) /\ Routed("mysql_describe_table") /\ \E args \in DescribeArgs : HandleDescribeTable(t, args)
CallDisconnect(t) ==
  Start(t) /\ Routed("mysql_disconnect") /\ HandleDisconnect(t)
CallSetupPersistent(t) ==
  Start(t) /\ Routed("mysql_setup_persistent") /\ \E args \in ConfigArgs : HandleSetupPersistent(t, args)
CallStatus(t) ==
  Start(t) /\ Routed("mysql_status") /\ HandleStatus(t)
CallUnknown(t) == Start(t) /\ \E name \in RequestedNames : UnknownTool(t, name)

Next ==
  \/ \E t \in Slots : CallListTools(t)
  \/ \E t \in Slots : CallConnect(t)
  \/ \E t \in Slots : CallQuery(t)
  \/ \E t \in Slots : CallListDatabases(t)
  \/ \E t \in Slots : CallListTables(t)
  \/ \E t \in Slots : CallDescribeTable(t)
  \/ \E t \in Slots : CallDisconnect(t)
  \/ \E t \in Slots : CallSetupPersistent(t)
  \/ \E t \in Slots : CallStatus(t)
  \/ \E t \in Slots : CallUnknown(t)
  \/ \E t \in Slots : ConnectAfterEnd(t)
  \/ \E t \in Slots : ConnectAfterGetConnection(t)
  \/ \E t \in Slots : ConnectAfterPing(t)
  \/ \E t \in 0 .. MaxTasks : AutoAfterEnd(t)
  \/ \E t \in 0 .. MaxTasks : AutoAfterGetConnection(t)
  \/ \E t \in 0 .. MaxTasks : AutoAfterPing(t)
  \/ \E t \in Slots : ExecAfterAutoConnect(t)
  \/ \E t \in Slots : ExecAfterExecute(t)
  \/ \E t \in Slots : DisconnectAfterEnd(t)
  \/ \E t \in Slots : SetupAfterAutoConnect(t)
  \/ \E t \in Slots : StatusAfterGetConnection(t)
  \/ \E t \in Slots : StatusAfterPing(t)

Spec == Init /\ [][Next]_vars

(***************************************************************************)
(* The interleaved specification.  The protocol layer starts the handler   *)
(* of a request as soon as the request arrives and does not wait for the   *)
(* handlers already started: a new invocation may begin while others are   *)
(* suspended at an await, and each resumes when its library call settles.  *)
(* A new invocation takes the lowest slot that is not in use.              *)
(***************************************************************************)
AsyncStart(t) ==
  /\ calls < AsyncCalls
  /\ ~Running(t)
  /\ \A u \in Slots : u < t => Running(u)

AsyncListTools(t) == AsyncStart(t) /\ ListTools(t)
AsyncConnect(t) ==
  AsyncStart(t) /\ Routed("mysql_connect") /\ \E args \in ConfigArgs : HandleConnect(t, args)
AsyncQuery(t) ==
  AsyncStart(t) /\ Routed("mysql_query") /\ \E args \in QueryArgs : HandleQuery(t, args)
AsyncListDatabases(t) ==
  AsyncStart(t) /\ Routed("mysql_list_databases") /\ HandleListDatabases(t)
AsyncListTables(t) ==
  AsyncStart(t) /\ Routed("mysql_list_tables") /\ \E args \in ListTablesArgs : HandleListTables(t, args)
AsyncDescribeTable(t) ==
  AsyncStart(t) /\ Routed("mysql_describe_table") /\ \E args \in DescribeArgs : HandleDescribeTable(t, args)
AsyncDisconnect(t) ==
  AsyncStart(t) /\ Routed("mysql_disconnect") /\ HandleDisconnect(t)
AsyncSetupPersistent(t) ==
  AsyncStart(t) /\ Routed("mysql_setup_persistent") /\ \E args \in ConfigArgs : HandleSetupPersistent(t, args)
AsyncStatus(t) ==
  AsyncStart(t) /\ Routed("mysql_status") /\ HandleStatus(t)
AsyncUnknown(t) == AsyncStart(t) /\ \E name \in RequestedNames : UnknownTool(t, name)

\* a suspended invocation resumes: the library call it awaits has settled
Resume ==
  \/ \E t \in Slots : ConnectAfterEnd(t)
  \/ \E t \in Slots : ConnectAfterGetConnection(t)
  \/ \E t \in Slots : ConnectAfterPing(t)
  \/ \E t \in 0 .. MaxTasks : AutoAfterEnd(t)
  \/ \E t \in 0 .. MaxTasks : AutoAfterGetConnection(t)
  \/ \E t \in 0 .. MaxTasks : AutoAfterPing(t)
  \/ \E t \in Slots : ExecAfterAutoConnect(t)
  \/ \E t \in Slots : ExecAfterExecute(t)
  \/ \E t \in Slots : DisconnectAfterEnd(t)
  \/ \E t \in Slots : SetupAfterAutoConnect(t)
  \/ \E t \in Slots : StatusAfterGetConnection(t)
  \/ \E t \in Slots : StatusAfterPing(t)

AsyncNext ==
  \/ \E t \in Slots : AsyncListTools(t)
  \/ \E t \in Slots : AsyncConnect(t)
  \/ \E t \in Slots : AsyncQuery(t)
  \/ \E t \in Slots : AsyncListDatabases(t)
  \/ \E t \in Slots : AsyncListTables(t)
  \/ \E t \in Slots : AsyncDescribeTable(t)
  \/ \E t \in Slots : AsyncDisconnect(t)
  \/ \E t \in Slots : AsyncSetupPersistent(t)
  \/ \E t \in Slots : AsyncStatus(t)
  \/ \E t \in Slots : AsyncUnknown(t)
  \/ Resume

AsyncSpec == Init /\ [][AsyncNext]_vars

\* every library call settles, so a suspended invocation resumes in the end
AsyncFair == AsyncSpec /\ WF_vars(Resume)


(***************************************************************************)
(* The claims.  Cur is the invocation the protocol layer handed over last. *)
(***************************************************************************)
Cur == task[1]
Done(op) == Cur.pc = "done" /\ Cur.op = op
EndedPools == {p \in 1 .. Len(pools) : pools[p].ended}
\* the last n completed calls
Last(n) == SubSeq(hist, Len(hist) - n + 1, Len(hist))
HasCredentials(args) == args.user.t = "string" /\ args.password.t = "string"

\* C1: when a connect call fails, the manager state after the call is the
\* state before it: the same pool, not closed, the same current and default
\* configuration, the same auto-connect flag.
C1_FailedConnectKeepsState ==
  (Done("mysql_connect") /\ Cur.kind # "ok") =>
    /\ pool = Cur.pre.pool
    /\ config = Cur.pre.config
    /\ defaultConfig = Cur.pre.defaultConfig
    /\ autoConnect = Cur.pre.autoConnect
    /\ EndedPools = Cur.pre.ended

\* C2: a connect whose arguments lack a string user or a string password
\* fails with InvalidParams, creates no pool, and neither closes nor replaces
\* the pool that was active.
C2_MissingCredentialsRejected ==
  (Done("mysql_connect") /\ ~HasCredentials(Cur.args)) =>
    /\ Cur.kind = "InvalidParams"
    /\ Len(pools) = Cur.pre.npools
    /\ pool = Cur.pre.pool
    /\ EndedPools = Cur.pre.ended

C2_Witness ==
  /\ Done("mysql_connect")
  /\ ~HasCredentials(Cur.args)
  /\ Cur.args.present
  /\ Cur.pre.pool # 0
  /\ Cur.pre.pool \notin EndedPools

\* C3: connect returns its success text only when the liveness check on the
\* pool it has just created ended without an error, and a connect in which a
\* library call threw fails with InvalidParams.
C3_SuccessOnlyAfterLivenessCheck ==
  Done("mysql_connect") =>
    /\ Cur.kind = "ok" =>
         /\ ~Cur.threw
         /\ Cur.mine > Cur.pre.npools
         /\ pool = Cur.mine
         /\ pools[Cur.mine].live = "ok"
    /\ Cur.threw => Cur.kind = "InvalidParams"

C3_Witness ==
  /\ Done("mysql_connect")
  /\ Cur.kind = "InvalidParams"
  /\ Cur.mine # 0
  /\ pools[Cur.mine].live = "failed"

\* C4: setupPersistent has the outcome connect has on the same arguments: it
\* fails with InvalidParams on an invalid configuration and when the liveness
\* check on the new pool throws, and it returns success only when the
\* liveness check succeeded.
C4_SetupPersistentFailsAsConnect ==
  Done("mysql_setup_persistent") =>
    /\ ~ConfigSchemaOK(Cur.args) => Cur.kind = "InvalidParams"
    /\ Cur.threw => Cur.kind = "InvalidParams"
    /\ Cur.kind = "ok" => (Cur.mine # 0 /\ pools[Cur.mine].live = "ok")

\* C5: when the auto-connect of a query, list or describe call fails, the
\* error is not raised and the manager is left without a pool, so that the
\* next call attempts the auto-connect again.
C5_FailedAutoConnectLeavesDisconnected ==
  (Cur.op \in ExecTools /\ Cur.pc = "d_ret" /\ Cur.auto = "failed") => pool = 0

\* C6: a query, listDatabases, listTables or describeTable invoked with no
\* pool and no usable default configuration (auto-connect never enabled, by
\* the environment or by setupPersistent) fails with InvalidRequest.
C6_NotConnectedIsInvalidRequest ==
  (Cur.pc = "done" /\ Cur.op \in ExecTools
     /\ Cur.pre.pool = 0 /\ ~Cur.pre.autoConnect) =>
    Cur.kind = "InvalidRequest"

\* C7: after a successful setupPersistent and a disconnect, the next query,
\* with every library call succeeding, does not fail with InvalidRequest: it
\* creates a pool from the default configuration before it executes, and
\* leaves the manager connected with the default configuration as the
\* current one.
C7_QueryReconnectsAfterDisconnect ==
  (/\ Done("mysql_query")
   /\ Len(hist) >= 3
   /\ Last(3)[1] = [op |-> "mysql_setup_persistent", kind |-> "ok"]
   /\ Last(3)[2] = [op |-> "mysql_disconnect", kind |-> "ok"]
   /\ ~Cur.threw) =>
    /\ Cur.kind # "InvalidRequest"
    /\ Cur.pre.pool = 0
    /\ Cur.auto = "ok"
    /\ pool = Cur.mine /\ pool > Cur.pre.npools
    /\ pools[pool].opts = PoolOptions(Val(defaultConfig))
    /\ config = defaultConfig
    /\ Cur.args.present => (Cur.kind = "ok" /\ Cur.tgt = pool /\ Cur.nexec = 1)

C7_Witness ==
  /\ Done("mysql_query")
  /\ Len(hist) >= 3
  /\ Last(3)[1] = [op |-> "mysql_setup_persistent", kind |-> "ok"]
  /\ Last(3)[2] = [op |-> "mysql_disconnect", kind |-> "ok"]
  /\ Cur.kind = "ok"
  /\ Cur.auto = "ok"

\* C8: while auto-connect is disabled (no user or no password in the
\* environment, setupPersistent never called), no query, list, describe or
\* status call creates a pool or sets the current configuration.
C8_NoPoolWithoutAutoConnect ==
  (Cur.op \in ExecTools \cup {"mysql_status"} /\ ~Cur.pre.autoConnect) =>
    /\ Len(pools) = Cur.pre.npools
    /\ pool = Cur.pre.pool
    /\ config = Cur.pre.config

\* C9: every pool is created from a configuration whose user and password
\* are both non-empty.
C9_PoolsHaveCredentials ==
  \A p \in 1 .. Len(pools) :
    Truthy(pools[p].opts.user) /\ Truthy(pools[p].opts.password)

\* C10: the status call that follows a successful connect reports Connected
\* and shows the host, port, database and user given to that connect, with
\* the defaults of the schema for an absent host or port; the lines stay as
\* they are up to the return of the call.
C10_StatusEchoesConnect ==
  [][ /\ (Done("mysql_connect") /\ Cur.kind = "ok" /\ task'[1].id # Cur.id
            /\ task'[1].op = "mysql_status") =>
        /\ Len(task'[1].text) = 5
        /\ task'[1].text[1] = "Connection Status: Connected"
        /\ task'[1].text[3] =
             "Host: " \o (IF Cur.args.host.t = "undefined" THEN "localhost"
                                                         ELSE Cur.args.host.s)
               \o ":" \o (IF Cur.args.port.t = "undefined" THEN "3306"
                                                         ELSE ToString(Cur.args.port.n))
        /\ task'[1].text[4] =
             "Database: " \o (IF Cur.args.database.t = "undefined" THEN "undefined"
                                                         ELSE Cur.args.database.s)
        /\ task'[1].text[5] = "User: " \o Cur.args.user.s
      /\ (Cur.op = "mysql_status" /\ Running(1)) =>
        /\ task'[1].op = "mysql_status"
        /\ task'[1].kind \in {"none", "ok"}
        /\ SubSeq(task'[1].text, 1, 5) = SubSeq(Cur.text, 1, 5) ]_vars

C10_Witness ==
  /\ Done("mysql_status")
  /\ Len(hist) >= 2
  /\ Last(2)[1] = [op |-> "mysql_connect", kind |-> "ok"]
  /\ Len(Cur.text) = 6
  /\ Cur.text[1] = "Connection Status: Connected"
  /\ Cur.text[5] = "User: root"


\* C11: the manager is Disconnected (no pool) or Connected (a pool): a step
\* takes it from Disconnected to Connected only inside connect,
\* setupPersistent or an auto-connect (at start-up or run by query, list or
\* describe), a step takes it from Connected to Disconnected only inside
\* disconnect, and no step of status changes the manager.
C11_OnlyNamedTransitions ==
  [][ \A t \in 0 .. MaxTasks :
        task'[t] # task[t] =>
          /\ (pool = 0 /\ pool' # 0) =>
               \/ task'[t].op \in {"mysql_connect", "mysql_setup_persistent", "startup"}
               \/ task'[t].op \in ExecTools /\ task'[t].auto = "running"
          /\ (pool # 0 /\ pool' = 0) => task'[t].op = "mysql_disconnect"
          /\ task'[t].op = "mysql_status" => UNCHANGED manager ]_vars

C11_Witness ==
  /\ Done("mysql_disconnect")
  /\ Cur.pre.pool # 0
  /\ pools[Cur.pre.pool].by # 0
  /\ pool = 0


\* C12: with one call handled at a time, a pool is created only while no pool
\* is referenced or in the step that resumes from the awaited end() of the
\* referenced pool, and once a connect or setupPersistent that found a pool in
\* use has returned, every pool ever created except the referenced one has
\* had end() called on it.
C12_OldPoolClosedFirst ==
  [][ /\ Len(pools') > Len(pools) =>
           \/ pool = 0
           \/ \E t \in 0 .. MaxTasks :
                /\ task[t].pc \in {"c_end", "d_end"}
                /\ task[t].tgt = pool
                /\ pools[pool].ended
                /\ task'[t].mine = Len(pools')
      /\ ( /\ task'[1].pc = "done"
           /\ task'[1].op \in {"mysql_connect", "mysql_setup_persistent"}
           /\ task'[1].pre.pool # 0 ) =>
           \A p \in 1 .. Len(pools') : p # pool' => pools'[p].ended ]_vars

C12_Witness ==
  /\ Cur.pc = "done"
  /\ Cur.op \in {"mysql_connect", "mysql_setup_persistent"}
  /\ Cur.pre.pool # 0
  /\ Cur.mine = pool
  /\ pool # Cur.pre.pool
  /\ pools[Cur.pre.pool].ended
  /\ ~pools[pool].ended


\* what disconnect never touches: the default configuration, the flag, the
\* number of pools
DisconnectKeepsRest ==
  /\ defaultConfig = Cur.pre.defaultConfig
  /\ autoConnect = Cur.pre.autoConnect
  /\ Len(pools) = Cur.pre.npools

\* disconnect called while disconnected: success text, nothing changed
DisconnectNoOp ==
  /\ Cur.kind = "ok"
  /\ Cur.text = <<DisconnectText>>
  /\ manager = <<Cur.pre.pool, Cur.pre.config, Cur.pre.defaultConfig, Cur.pre.autoConnect>>
  /\ EndedPools = Cur.pre.ended
  /\ Len(pools) = Cur.pre.npools

\* C13 as stated: a disconnect that finds a pool closes it and clears the
\* pool reference and the current configuration, a disconnect that finds no
\* pool is a no-op returning the success text, and a disconnect that follows
\* a disconnect changes nothing.
C13_DisconnectAlwaysClears ==
  Done("mysql_disconnect") =>
    /\ Cur.pre.pool # 0 =>
         /\ Cur.kind = "ok"
         /\ pool = 0
         /\ config = Null
         /\ Cur.pre.pool \in EndedPools
    /\ Cur.pre.pool = 0 => DisconnectNoOp
    /\ (Len(hist) >= 2 /\ Last(2)[1].op = "mysql_disconnect") => DisconnectNoOp

\* C13 (amended): a disconnect that finds a pool calls end() on it; when
\* end() returns it clears the pool reference and the current configuration
\* and returns the success text, when end() throws it fails with
\* InternalError and leaves both as they were.  A disconnect that finds no
\* pool is a no-op returning the success text, and a disconnect that follows
\* a successful disconnect changes nothing.
C13_DisconnectIdempotent ==
  Done("mysql_disconnect") =>
    /\ DisconnectKeepsRest
    /\ Cur.pre.pool # 0 =>
         /\ Cur.pre.pool \in EndedPools
         /\ EndedPools = Cur.pre.ended \cup {Cur.pre.pool}
         /\ IF Cur.threw
            THEN /\ Cur.kind = "InternalError"
                 /\ pool = Cur.pre.pool
                 /\ config = Cur.pre.config
            ELSE /\ Cur.kind = "ok"
                 /\ Cur.text = <<DisconnectText>>
                 /\ pool = 0
                 /\ config = Null
    /\ Cur.pre.pool = 0 => DisconnectNoOp
    /\ (Len(hist) >= 2 /\ Last(2)[1] = [op |-> "mysql_disconnect", kind |-> "ok"]) =>
         DisconnectNoOp

\* a disconnect that closed a pool, followed by a disconnect
C13_Witness ==
  /\ Done("mysql_disconnect")
  /\ Len(hist) >= 2
  /\ Last(2)[1] = [op |-> "mysql_disconnect", kind |-> "ok"]
  /\ EndedPools # {}
  /\ pool = 0
  /\ config = Null


\* C14: status never fails.  While it runs and when it has returned the
\* manager is as the call found it; it returns a text made of the status
\* lines of that state, followed, when a pool is present, by the health
\* line, which reads Unhealthy exactly when getConnection() or ping() threw.
C14_StatusNeverFails ==
  Cur.op = "mysql_status" =>
    /\ Cur.kind \in {"none", "ok"}
    /\ manager = <<Cur.pre.pool, Cur.pre.config, Cur.pre.defaultConfig, Cur.pre.autoConnect>>
    /\ EndedPools = Cur.pre.ended
    /\ Len(pools) = Cur.pre.npools
    /\ Cur.pc = "done" =>
         /\ Cur.kind = "ok"
         /\ Cur.text =
              StatusLines(Cur.pre.pool # 0, Cur.pre.config, Cur.pre.autoConnect)
              \o (IF Cur.pre.pool = 0 THEN <<>>
                  ELSE IF Cur.threw THEN <<Unhealthy>> ELSE <<Healthy>>)

\* a status whose health check threw
C14_Witness ==
  /\ Done("mysql_status")
  /\ Cur.threw
  /\ Cur.kind = "ok"
  /\ Cur.text[Len(Cur.text)] = Unhealthy


\* a tools/call request, whatever its name
IsToolCall(tk) == tk.pc # "idle" /\ tk.op # "tools/list"

\* C15: a tool call whose name the switch has no case for fails with
\* MethodNotFound, carrying the name, and leaves the manager and the pools as
\* it found them.
C15_UnknownToolIsMethodNotFound ==
  (IsToolCall(Cur) /\ Cur.op \notin ToolNames) =>
    /\ Cur.pc = "done"
    /\ Cur.kind = "MethodNotFound"
    /\ Cur.text = <<"Unknown tool: " \o Cur.op>>
    /\ manager = <<Cur.pre.pool, Cur.pre.config, Cur.pre.defaultConfig, Cur.pre.autoConnect>>
    /\ EndedPools = Cur.pre.ended
    /\ Len(pools) = Cur.pre.npools

\* an unknown name sent to a connected manager
C15_Witness ==
  /\ Cur.pc = "done"
  /\ Cur.op = "invalid_tool"
  /\ Cur.kind = "MethodNotFound"
  /\ pool # 0
  /\ pool = Cur.pre.pool


\* C20: the listing advertises eight tools, all of different names; the
\* names the switch has a case for are the advertised names; and a tool call
\* ends in MethodNotFound exactly when its name is not an advertised one.
C20_ListedAreRouted ==
  /\ Done("tools/list") =>
       /\ Cur.kind = "ok"
       /\ Len(Cur.text) = 8
       /\ Cardinality({Cur.text[i] : i \in 1 .. Len(Cur.text)}) = 8
       /\ {Cur.text[i] : i \in 1 .. Len(Cur.text)} = ToolNames
  /\ (IsToolCall(Cur) /\ Cur.pc = "done") =>
       (Cur.kind = "MethodNotFound" <=> Cur.op \notin ListedNames)
  /\ (IsToolCall(Cur) /\ Cur.op \in ListedNames) =>
       Cur.text # <<"Unknown tool: " \o Cur.op>>

\* a listing asked for after an unknown name was refused and the last
\* advertised tool was served
C20_Witness ==
  /\ Done("tools/list")
  /\ Len(hist) >= 3
  /\ Last(3)[1] = [op |-> "invalid_tool", kind |-> "MethodNotFound"]
  /\ Last(3)[2] = [op |-> "mysql_status", kind |-> "ok"]


\* the kinds of a structured failure
FailureKinds == {"InvalidParams", "InvalidRequest", "InternalError", "MethodNotFound"}

\* C16: a request that has returned either succeeded or failed with one of
\* the structured kinds.  A step in which execute() throws ends a query with
\* InvalidParams and a listDatabases, listTables or describeTable with
\* InternalError; a step in which end() throws in disconnect, and a handler
\* that destructures absent arguments, end with InternalError and the
\* message of the dispatcher.
C16_FailureKindByCause ==
  [][ \A t \in Slots :
        /\ task'[t].pc = "done" => task'[t].kind \in FailureKinds \cup {"ok"}
        /\ (task[t].pc = "q_exec" /\ task'[t].pc = "done" /\ task'[t].threw /\ ~task[t].threw) =>
             /\ task'[t].kind =
                  (IF task[t].op = "mysql_query" THEN "InvalidParams" ELSE "InternalError")
             /\ task'[t].text # <<"rows">>
        /\ (task[t].pc = "q_exec" /\ task'[t].pc = "done" /\ task'[t].kind # "ok") =>
             task'[t].kind =
               (IF task[t].op = "mysql_query" THEN "InvalidParams" ELSE "InternalError")
        /\ (task[t].pc = "x_end" /\ task'[t].pc = "done" /\ task'[t].threw) =>
             /\ task'[t].kind = "InternalError"
             /\ task'[t].text = <<"Error executing tool mysql_disconnect: " \o LibMsg>>
        /\ ( /\ task'[t].id # task[t].id
             /\ task'[t].op \in {"mysql_query", "mysql_list_tables", "mysql_describe_table"}
             /\ ~task'[t].args.present
             /\ pool # 0 ) =>
             /\ task'[t].pc = "done"
             /\ task'[t].kind = "InternalError"
             /\ task'[t].text = <<"Error executing tool " \o task'[t].op \o ": " \o UndefMsg>> ]_vars

\* a listTables whose execute threw, after a query whose execute threw
C16_Witness ==
  /\ Done("mysql_list_tables")
  /\ Cur.nexec = 1
  /\ Cur.kind = "InternalError"
  /\ Cur.text = <<"Failed to list tables: " \o LibMsg>>
  /\ Len(hist) >= 2
  /\ Last(2)[1] = [op |-> "mysql_query", kind |-> "InvalidParams"]


\* the environment named a user and a password, both non-empty: the default
\* configuration holds them as they were given, or the empty string
EnvHasCredentials ==
  /\ Val(defaultConfig).user # Str("")
  /\ Val(defaultConfig).password # Str("")

\* C17: before the first request, the default configuration is the one
\* derived from the environment; the flag is enabled, and the start-up
\* connection attempt with that configuration has begun, exactly when the
\* environment user and password are both non-empty; otherwise the flag is
\* disabled, no pool exists and no attempt is made.
C17_AutoConnectIffCredentials ==
  calls = 0 =>
    /\ ~IsNull(defaultConfig)
    /\ \E e \in Envs : Val(defaultConfig) = EnvConfig(e)
    /\ autoConnect <=> EnvHasCredentials
    /\ task[0].pc # "idle" <=> EnvHasCredentials
    /\ EnvHasCredentials =>
         /\ config = defaultConfig
         /\ pool # 0 =>
              /\ pools = <<pools[1]>>
              /\ pool = 1
              /\ pools[1].by = 0
              /\ pools[1].opts = PoolOptions(Val(defaultConfig))
    /\ ~EnvHasCredentials =>
         /\ pool = 0
         /\ pools = <<>>
         /\ config = Null
         /\ task[0].mine = 0

\* start-up with both credentials, the attempt at its ping
C17_Witness ==
  /\ calls = 0
  /\ autoConnect
  /\ EnvHasCredentials
  /\ pool = 1
  /\ task[0].pc = "d_ping"


\* the statement of listTables qualified with database db
ShowTablesFrom(db) == "SHOW TABLES FROM " \o BQ \o db \o BQ

\* C18 as stated: listTables hands execute the statement qualified with the
\* database argument when the argument is given, and the unqualified
\* SHOW TABLES when it is not.
C18_QualifiedIffArgument ==
  (Cur.op = "mysql_list_tables" /\ Cur.nexec = 1) =>
    Cur.stmt = (IF Cur.args.database.t = "string"
                THEN ShowTablesFrom(Cur.args.database.s)
                ELSE "SHOW TABLES")

\* C18 (amended): listTables hands execute the statement qualified with the
\* database argument when a non-empty argument is given; without it, the
\* statement qualified with the database of the current configuration when
\* that is non-empty; and the unqualified SHOW TABLES only when neither is
\* set.  No parameters go with the statement.
C18_QualifiedWithArgumentOrConfigured ==
  (Cur.op = "mysql_list_tables" /\ Cur.nexec = 1) =>
    LET arg == Cur.args.database
        cdb == IF IsNull(config) THEN Undefined ELSE Val(config).database
    IN /\ Cur.stmt =
            (IF arg.t = "string" /\ arg.s # "" THEN ShowTablesFrom(arg.s)
             ELSE IF cdb.t = "string" /\ cdb.s # "" THEN ShowTablesFrom(cdb.s)
             ELSE "SHOW TABLES")
       /\ Cur.sparams = <<>>

\* a listTables without argument that was served a qualified statement
C18_Witness ==
  /\ Done("mysql_list_tables")
  /\ Cur.kind = "ok"
  /\ Cur.args.present
  /\ Cur.args.database = Undefined
  /\ ~IsNull(config)
  /\ Cur.stmt = ShowTablesFrom(Val(config).database.s)


\* C19: the statement a query hands to execute is the query argument, and
\* the params it hands over next to it are the params argument (none when
\* the argument is absent); a query that follows a query of the same text
\* hands over the same statement, whatever the params of the two.
C19_ParamsNeverInStatement ==
  [][ /\ (task'[1].op = "mysql_query" /\ task'[1].nexec = 1) =>
           /\ task'[1].args.query.t = "string"
           /\ task'[1].stmt = task'[1].args.query.s
           /\ task'[1].sparams =
                (IF task'[1].args.params.t = "array"
                 THEN task'[1].args.params.a ELSE <<>>)
      /\ ( /\ Done("mysql_query")
           /\ Cur.nexec = 1
           /\ task'[1].id # Cur.id
           /\ task'[1].op = "mysql_query"
           /\ task'[1].args.query = Cur.args.query ) =>
           (task'[1].nexec = 1 => task'[1].stmt = Cur.stmt) ]_vars

\* a parameterised query served with its text untouched and its params apart
C19_Witness ==
  /\ Done("mysql_query")
  /\ Cur.kind = "ok"
  /\ Cur.stmt = "SELECT * FROM t WHERE id = ?"
  /\ Cur.sparams = <<"5 OR 1=1">>
  /\ Len(hist) >= 2
  /\ Last(2)[1] = [op |-> "mysql_query", kind |-> "ok"]


\* no invocation and no start-up attempt is in progress
Quiet == \A t \in 0 .. MaxTasks : ~Running(t)

\* C21: under any interleaving, whenever no invocation is in progress, every
\* pool that was created and is not the currently referenced one has had
\* end() called on it.
C21_NoPoolLeaked ==
  Quiet => \A p \in 1 .. Len(pools) : p # pool => pools[p].ended


\* C22: under any interleaving, the step in which query, listDatabases,
\* listTables or describeTable calls execute finds a pool referenced and
\* calls it on that pool, the current one at that moment; an invocation that
\* found no pool at its check has executed nothing.
C22_ExecuteOnCurrentPool ==
  [][ \A t \in Slots :
        /\ task'[t].nexec > task[t].nexec =>
             /\ task'[t].op \in ExecTools
             /\ pool # 0
             /\ pool' = pool
             /\ task'[t].tgt = pool
             /\ task'[t].pc = "q_exec"
        /\ (task'[t].op \in ExecTools /\ task'[t].kind = "InvalidRequest") =>
             task'[t].nexec = 0
        /\ (task'[t].op \in ExecTools /\ task'[t].nexec > 0) =>
             task'[t].tgt \in 1 .. Len(pools') ]_vars

\* a statement in flight on the pool a concurrent connect has since replaced
C22_Witness ==
  \E t, u \in Slots :
    /\ task[t].op \in ExecTools
    /\ task[t].pc = "q_exec"
    /\ task[u].op = "mysql_connect"
    /\ Running(u)
    /\ task[u].id < task[t].id
    /\ pool = task[u].mine
    /\ task[t].tgt = task[u].pre.pool
    /\ task[t].tgt # pool


\* the pools created by the invocation numbered id (0 is the start-up attempt)
CreatedBy(id) == {p \in 1 .. Len(pools) : pools[p].by = id}

\* C23: no invocation, and not the start-up attempt, creates more than one
\* pool or executes more than one statement; an invocation that has returned
\* has a result or a structured failure; and, every library call settling,
\* each invocation in progress returns.
C23_NoRetries ==
  /\ [](\A id \in 0 .. MaxCalls : Cardinality(CreatedBy(id)) <= 1)
  /\ [](\A t \in 0 .. MaxTasks : task[t].nexec <= 1)
  /\ [](\A t \in Slots : task[t].pc = "done" => task[t].kind \in FailureKinds \cup {"ok"})
  /\ \A t \in 0 .. MaxTasks : Running(t) ~> task[t].pc = "done"

\* a returned invocation that created its one pool and executed its one
\* statement, next to another that is still suspended
C23_Witness ==
  \E t, u \in Slots :
    /\ task[t].pc = "done"
    /\ task[t].op \in ExecTools
    /\ task[t].nexec = 1
    /\ CreatedBy(task[t].id) = {task[t].mine}
    /\ Running(u)


\* C24: whenever no invocation is in progress and a pool is referenced, that
\* pool is one whose getConnection() and ping() at creation both returned.
C24_CurrentPoolIsLive ==
  (Quiet /\ pool # 0) => pools[pool].live = "ok"


\* C25: under any interleaving, a referenced pool comes with a current
\* configuration, and a status that found a pool reports Connected followed
\* by the host, database and user lines of that configuration.
C25_PoolImpliesConfig ==
  /\ pool # 0 => ~IsNull(config)
  /\ \A t \in Slots :
       (task[t].op = "mysql_status" /\ task[t].pre.pool # 0) =>
         /\ ~IsNull(task[t].pre.config)
         /\ Len(task[t].text) >= 5
         /\ SubSeq(task[t].text, 1, 5) =
              StatusLines(TRUE, task[t].pre.config, task[t].pre.autoConnect)
         /\ task[t].text[1] = "Connection Status: Connected"

\* a disconnect has cleared the configuration under a connect that was
\* awaiting end(), and a status then found neither pool nor configuration
C25_Witness ==
  \E t, u \in Slots :
    /\ task[t].op = "mysql_connect"
    /\ task[t].pc = "done"
    /\ task[t].pre.pool # 0
    /\ task[t].mine = 0
    /\ ~task[t].threw
    /\ task[u].op = "mysql_disconnect"
    /\ task[u].pc = "done"
    /\ pool = 0
    /\ IsNull(config)


\* C26: a step changes the default configuration or the auto-connect flag
\* only as the first step of a setupPersistent whose arguments pass
\* validation, which sets them to the parsed arguments and to enabled; the
\* flag never goes from enabled to disabled; and the pool an auto-connect of
\* query, listDatabases, listTables or describeTable creates is built from
\* the default configuration, which becomes the current one.
C26_DefaultsChangedOnlyBySetup ==
  [][ /\ (defaultConfig' # defaultConfig \/ autoConnect' # autoConnect) =>
           \E t \in Slots :
             /\ task'[t].id # task[t].id
             /\ task'[t].op = "mysql_setup_persistent"
             /\ ConfigSchemaOK(task'[t].args)
             /\ defaultConfig' = Some(ConfigSchemaParse(task'[t].args))
             /\ autoConnect'
      /\ autoConnect => autoConnect'
      /\ \A t \in Slots :
           ( /\ task'[t].pc = "done"
             /\ ~(task'[t].op = "mysql_setup_persistent" /\ ConfigSchemaOK(task'[t].args)) ) =>
             /\ defaultConfig' = task'[t].pre.defaultConfig
             /\ autoConnect' = task'[t].pre.autoConnect
      /\ \A t \in Slots :
           (Len(pools') > Len(pools) /\ task'[t] # task[t] /\ task'[t].op \in ExecTools) =>
             /\ ~IsNull(defaultConfig)
             /\ pools'[Len(pools')].opts = PoolOptions(Val(defaultConfig))
             /\ config' = defaultConfig ]_vars

\* connect(c), disconnect, then a query whose auto-connect built its pool
\* from the default configuration, which is not c
C26_Witness ==
  /\ Done("mysql_query")
  /\ Len(hist) = 3
  /\ hist[1] = [op |-> "mysql_connect", kind |-> "ok"]
  /\ hist[2] = [op |-> "mysql_disconnect", kind |-> "ok"]
  /\ Cur.mine = Len(pools)
  /\ Cur.mine > 1
  /\ pools[Cur.mine].opts = PoolOptions(Val(defaultConfig))
  /\ pools[Cur.mine - 1].opts # pools[Cur.mine].opts
  /\ pools[Cur.mine - 1].by = 1
  /\ config = defaultConfig


\* C27: under any interleaving, the pool a connect creates is built from the
\* validated arguments of that same invocation, and the success text of the
\* connect names the host, port and database of those arguments.
C27_ConnectUsesOwnConfig ==
  \A t \in Slots :
    (task[t].op = "mysql_connect" /\ task[t].mine # 0) =>
      /\ pools[task[t].mine].opts = PoolOptions(ConfigSchemaParse(task[t].args))
      /\ (task[t].pc = "done" /\ task[t].kind = "ok") =>
           task[t].text = <<ConnectText(ConfigSchemaParse(task[t].args))>>


\* C28: under any interleaving, no execute(), getConnection() or end() is
\* called on a pool on which end() has been called already.
C28_NoUseAfterEnd ==
  \A p \in 1 .. Len(pools) : ~pools[p].misuse


\* C29: under any interleaving, a connect whose arguments pass validation
\* and whose library calls all return succeeds, and neither connect nor
\* connectWithDefaultConfig finds the current configuration absent when it
\* reads it.
C29_ValidConnectSucceeds ==
  \A t \in Slots :
    /\ ( /\ task[t].op = "mysql_connect"
         /\ task[t].pc = "done"
         /\ ConfigSchemaOK(task[t].args)
         /\ ~task[t].threw ) =>
         /\ task[t].kind = "ok"
         /\ task[t].mine # 0
    /\ (task[t].pc = "done" /\ task[t].op = "mysql_connect") =>
         task[t].text # <<"Failed to connect to MySQL: " \o NullMsg>>
    /\ (task[t].auto = "failed" /\ ~task[t].threw) => task[t].mine # 0

====
